---------------------------- MODULE Spec2Model ----------------------------
(***************************************************************************)
(* Model of mistune's Markdown orchestrator (src/mistune/markdown.py):     *)
(* the parse pipeline (normalisation, state.process, the three hook        *)
(* stages, block.parse, render_state) and the recursive token resolution   *)
(* of _iter_render, executed step by step as the generator it is.          *)
(*                                                                         *)
(* Strings are sequences of one-character strings.  A token is a Python    *)
(* dict, modelled as a function whose DOMAIN is the set of keys present.   *)
(***************************************************************************)
EXTENDS Integers, Sequences, FiniteSets, TLC

(***************************************************************************)
(* Bounds of the model.                                                    *)
(***************************************************************************)
MaxSrcLen == 4      \* longest source text given to parse in SpecNormalize
MaxNodes == 3       \* most tokens in a tree given to the resolver
MaxHooks == 3       \* most hooks registered on one Markdown instance
MaxCalls == 2       \* most invocations of one Markdown instance in a run

CR == "\r"
LF == "\n"
SrcChars == {"a", CR, LF}

(***************************************************************************)
(* Strings.                                                                *)
(***************************************************************************)
RECURSIVE StringsOfLen(_, _)
StringsOfLen(chars, n) ==
    IF n = 0 THEN {<<>>}
    ELSE {<<c>> \o t : c \in chars, t \in StringsOfLen(chars, n - 1)}

StringsUpTo(chars, n) == UNION {StringsOfLen(chars, k) : k \in 0..n}

StartsWith(str, prefix) ==
    /\ Len(str) >= Len(prefix)
    /\ SubSeq(str, 1, Len(prefix)) = prefix

EndsWith(str, suffix) ==
    /\ Len(str) >= Len(suffix)
    /\ SubSeq(str, Len(str) - Len(suffix) + 1, Len(str)) = suffix

\* str.replace(old, new): every non-overlapping occurrence of old, scanning
\* from the left, is replaced by new (old is not empty).
RECURSIVE Replace(_, _, _)
Replace(str, old, new) ==
    IF str = <<>> THEN <<>>
    ELSE IF StartsWith(str, old)
         THEN new \o Replace(SubSeq(str, Len(old) + 1, Len(str)), old, new)
         ELSE <<Head(str)>> \o Replace(Tail(str), old, new)

\* str.strip(): leading and trailing whitespace removed.
Whitespace == {" ", LF}

RECURSIVE LStrip(_)
LStrip(str) ==
    IF str # <<>> /\ Head(str) \in Whitespace THEN LStrip(Tail(str)) ELSE str

RECURSIVE RStrip(_)
RStrip(str) ==
    IF str # <<>> /\ str[Len(str)] \in Whitespace
    THEN RStrip(SubSeq(str, 1, Len(str) - 1))
    ELSE str

\* str.strip taking the whitespace off the front only
Strip_Left(str) == LStrip(str)

Strip(str) == RStrip(LStrip(str))

(***************************************************************************)
(* Tokens: dicts with the optional keys 'children' and 'text'.             *)
(***************************************************************************)
Has(tok, key) == key \in DOMAIN tok

\* tok.pop(key), as far as the dict is concerned
Pop(tok, key) == [k \in DOMAIN tok \ {key} |-> tok[k]]

\* tok[key] = value
SetItem(tok, key, value) ==
    [k \in DOMAIN tok \cup {key} |-> IF k = key THEN value ELSE tok[k]]

PlainTok == [type |-> "blank_line"]
TextTok(text) == [type |-> "paragraph", text |-> text]
ContainerTok(children) == [type |-> "block_quote", children |-> children]
BothTok(children) ==
    [type |-> "list_item", attrs |-> [depth |-> 1], children |-> children,
     text |-> <<"a">>]

\* The raw texts of the tokens of the model: empty, blank, plain, with
\* whitespace on both sides, and with inline markup.
Texts == {<<>>, <<" ">>, <<"a">>, <<" ", "a", " ">>, <<LF, "*", "a">>}

\* Every token sequence (a forest) of exactly n tokens, nested ones counted.
RECURSIVE ForestsOf(_)
RECURSIVE TreesOf(_)
TreesOf(n) ==
    IF n = 0 THEN {}
    ELSE (IF n = 1 THEN {PlainTok} \cup {TextTok(x) : x \in Texts} ELSE {})
         \cup {ContainerTok(f) : f \in ForestsOf(n - 1)}
         \cup {BothTok(f) : f \in ForestsOf(n - 1)}

ForestsOf(n) ==
    IF n = 0 THEN {<<>>}
    ELSE UNION {{<<tr>> \o f : tr \in TreesOf(k), f \in ForestsOf(n - k)}
                : k \in 1..n}

Forests(n) == UNION {ForestsOf(k) : k \in 0..n}

\* The token list at a path: state.tokens itself for the empty path, else
\* the 'children' of the token the path leads to.
RECURSIVE ListAt(_, _)
ListAt(toks, path) ==
    IF path = <<>> THEN toks
    ELSE ListAt(toks[Head(path)].children, Tail(path))

TokAt(toks, path) ==
    ListAt(toks, SubSeq(path, 1, Len(path) - 1))[path[Len(path)]]

\* The tree after the token object at a path has been mutated into tok.
RECURSIVE SetTok(_, _, _)
SetTok(toks, path, tok) ==
    IF Len(path) = 1 THEN [toks EXCEPT ![path[1]] = tok]
    ELSE [toks EXCEPT ![path[1]] =
             SetItem(@, "children", SetTok(@.children, Tail(path), tok))]

\* The paths of all tokens of a tree, a path being the indices that lead
\* from state.tokens down through 'children' to the token.
RECURSIVE Paths(_)
Paths(toks) ==
    UNION {{<<i>>} \cup (IF Has(toks[i], "children")
                         THEN {<<i>> \o q : q \in Paths(toks[i].children)}
                         ELSE {})
           : i \in 1..Len(toks)}

\* The Inline Engine, self.inline(text, env): the inline tokens of a text.
\* A text starting with '*' gives a token with children of its own, in
\* which a token carries a text.
Inline(text, env) ==
    IF text = <<>> THEN <<>>
    ELSE IF Head(text) = "*"
         THEN <<[type |-> "emphasis",
                 children |-> <<[type |-> "codespan",
                                 text |-> Tail(text)]>>]>>
         ELSE <<[type |-> "text", raw |-> text]>>

VARIABLES
    pc,                   \* position of the running parse call
    s,                    \* parse's local s
    renderer,             \* self.renderer
    before_parse_hooks,   \* self.before_parse_hooks
    before_render_hooks,  \* self.before_render_hooks
    after_render_hooks,   \* self.after_render_hooks
    state_src,            \* the text state.process received
    tokens,               \* state.tokens
    hook_i,               \* position of the running for loop over a hook list
    frames,               \* stack of live _iter_render generators
    data,                 \* tokens the consumer of the generator has received
    result,               \* parse's local result
    calls,                \* history: the calls parse has made, in order
    events,               \* history: inline calls and yields of _iter_render
    tokens0,              \* history: state.tokens when render_state began
    arg0,                 \* history: the text parse was called with
    entry,                \* the method the caller invoked: parse, call or read
    arg,                  \* its argument: the text, None, or the file path
    encoding,             \* read's encoding
    raw,                  \* read's bytes, s before line 100
    state,                \* the local state of parse and read: the object
    made,                 \* state_cls() calls of the running invocation
    env_file,             \* state.env.get('__file__')
    tokens_in,            \* history: state.tokens when parse got its state
    returns,              \* history: what the caller got from each invocation
    read_error,           \* the exception read raised, if any
    state_arg,            \* history: the state argument of parse or read
    ncalls                \* invocations begun

vars == <<pc, s, renderer, before_parse_hooks, before_render_hooks,
          after_render_hooks, state_src, tokens, hook_i, frames, data,
          result, calls, events, tokens0, arg0, entry, arg, encoding, raw,
          state, made, env_file, tokens_in, returns, read_error, ncalls,
                   state_arg>>

\* what one invocation of parse, read or __call__ adds to the pipeline's state
callvars == <<entry, arg, encoding, raw, state, made, env_file, tokens_in,
              returns, read_error, ncalls,
                   state_arg>>

hookvars == <<before_parse_hooks, before_render_hooks, after_render_hooks>>
rendervars == <<tokens, frames, data, events, tokens0>>

\* State objects: None, the one a caller passes in, and the k-th one that
\* state_cls() made in the call-th invocation.
NoneState == [kind |-> "none", call |-> 0, k |-> 0]
CallerState == [kind |-> "caller", call |-> 0, k |-> 0]
MadeState(call, k) == [kind |-> "made", call |-> call, k |-> k]

\* What state.tokens of a state passed in by the caller may hold.
CallerTokens == {<<>>, <<PlainTok>>}

NoResult == [by |-> "none", val |-> <<>>, apps |-> <<>>]

\* None as the argument of __call__
NoneValue == <<"None">>

\* No invocation yet.
NoCall ==
    /\ entry = "none"
    /\ arg = <<>>
    /\ encoding = "-"
    /\ raw = <<>>
    /\ state = NoneState
    /\ made = 0
    /\ env_file = "unset"
    /\ tokens_in = <<>>
    /\ returns = <<>>
    /\ read_error = "none"
    /\ state_arg = NoneState
    /\ ncalls = 0

\* An entry of the history calls: a stage parse ran, or one hook invocation
\* with the result it was given and what it returned.
Call(name) ==
    [call |-> name, i |-> 0, hook |-> "-", arg |-> NoResult, ret |-> NoResult,
     state |-> state]
HookCall(name, i, hook, given, ret) ==
    [call |-> name, i |-> i, hook |-> hook, arg |-> given, ret |-> ret,
     state |-> state]

\* What the registered callables of the model do.
StateHooks == {"nop", "append_token", "raise"}
ResultHooks == {"wrap", "count", "raise"}
SyntheticTok == TextTok(<<" ", "a">>)

\* The texts parse is called with in Spec.
Sources == {<<LF>>, <<"a">>, <<"a", CR, LF, CR>>, <<">", " ", "a">>}

\* The Block Engine: the block tokens of a normalized text.  A blank text
\* is a blank line, a text starting with '>' a block quote around a
\* paragraph, any other text a paragraph; a blank line at the end is a
\* token of its own.
DocOf(src) ==
    LET body == RStrip(src)
    IN IF body = <<>> THEN <<PlainTok>>
       ELSE (IF Head(body) = ">"
             THEN <<ContainerTok(<<TextTok(Tail(body))>>)>>
             ELSE <<TextTok(body)>>)
            \o (IF EndsWith(src, <<LF, LF>>) THEN <<PlainTok>> ELSE <<>>)

(***************************************************************************)
(* __init__ (lines 21-37, no plugins) and use (lines 39-40).               *)
(***************************************************************************)
Init ==
    /\ renderer \in {"none", "callable"}
    /\ before_parse_hooks = <<>>
    /\ before_render_hooks = <<>>
    /\ after_render_hooks = <<>>
    /\ pc = "idle"
    /\ s = <<>>
    /\ arg0 = <<>>
    /\ state_src = <<>>
    /\ tokens = <<>>
    /\ hook_i = 0
    /\ frames = <<>>
    /\ data = <<>>
    /\ result = NoResult
    /\ calls = <<>>
    /\ events = <<>>
    /\ tokens0 = <<>>
    /\ NoCall

NumHooks ==
    Len(before_parse_hooks) + Len(before_render_hooks)
        + Len(after_render_hooks)

\* use(plugin), the plugin appending one hook to one of the three lists
Use ==
    /\ pc = "idle"
    /\ NumHooks < MaxHooks
    /\ \/ \E h \in StateHooks :
            /\ before_parse_hooks' = Append(before_parse_hooks, h)
            /\ UNCHANGED <<before_render_hooks, after_render_hooks>>
       \/ \E h \in StateHooks :
            /\ before_render_hooks' = Append(before_render_hooks, h)
            /\ UNCHANGED <<before_parse_hooks, after_render_hooks>>
       \/ \E h \in ResultHooks :
            /\ after_render_hooks' = Append(after_render_hooks, h)
            /\ UNCHANGED <<before_parse_hooks, before_render_hooks>>
    /\ UNCHANGED <<pc, s, renderer, state_src, rendervars, hook_i, result,
                   calls, arg0, callvars>>

\* A new invocation begins: nothing of the one before is left but the
\* Markdown instance and what the caller got.
NewInvocation ==
    /\ ncalls' = ncalls + 1
    /\ made' = 0
    /\ calls' = <<>>
    /\ events' = <<>>
    /\ tokens0' = <<>>
    /\ tokens_in' = <<>>
    /\ frames' = <<>>
    /\ data' = <<>>
    /\ result' = NoResult
    /\ state_src' = <<>>
    /\ hook_i' = 0
    /\ read_error' = "none"
    /\ UNCHANGED <<renderer, hookvars, returns>>

\* The caller's state argument: None, or a state of its own with its
\* tokens and env.
StateArgument ==
    /\ \/ /\ state' = NoneState
          /\ tokens' = <<>>
          /\ env_file' = "unset"
       \/ /\ state' = CallerState
          /\ tokens' \in CallerTokens
          /\ env_file' = "unset"
    /\ state_arg' = state'

\* parse(s, state) is called by the user of the instance.
ParseCall ==
    /\ pc = "idle"
    /\ \E src \in Sources :
         /\ s' = src
         /\ arg0' = src
         /\ arg' = src
    /\ entry' = "parse"
    /\ StateArgument
    /\ NewInvocation
    /\ pc' = "l67"
    /\ UNCHANGED <<encoding, raw>>

\* lines 67-68 without the test: a state is made whatever was passed in
CreateState_Always ==
    /\ pc = "l67"
    /\ state' = MadeState(ncalls, made + 1)
    /\ made' = made + 1
    /\ tokens' = <<>>
    /\ env_file' = "unset"
    /\ tokens_in' = tokens'
    /\ pc' = "l71"
    /\ UNCHANGED <<s, renderer, hookvars, state_src, frames, data, events,
                   tokens0, hook_i, result, calls, arg0, entry, arg,
                   encoding, raw, returns, read_error, ncalls,
                   state_arg>>

\* lines 67-68: if state is None: state = self.block.state_cls()
CreateState ==
    /\ pc = "l67"
    /\ IF state = NoneState
       THEN /\ state' = MadeState(ncalls, made + 1)
            /\ made' = made + 1
            /\ tokens' = <<>>
            /\ env_file' = "unset"
       ELSE UNCHANGED <<state, made, tokens, env_file>>
    /\ tokens_in' = tokens'
    /\ pc' = "l71"
    /\ UNCHANGED <<s, renderer, hookvars, state_src, frames, data, events,
                   tokens0, hook_i, result, calls, arg0, entry, arg,
                   encoding, raw, returns, read_error, ncalls,
                   state_arg>>

(***************************************************************************)
(* parse, lines 70-76: normalisation of the line separators.               *)
(***************************************************************************)
\* line 71 written as s.replace('\r', '\n'): the pairs are not collapsed
ReplaceCRLF_EachCR ==
    /\ pc = "l71"
    /\ s' = Replace(s, <<CR>>, <<LF>>)
    /\ pc' = "l72"
    /\ UNCHANGED <<renderer, hookvars, state_src, rendervars, hook_i, result,
                   calls, arg0, callvars>>

ReplaceCRLF ==
    /\ pc = "l71"
    /\ s' = Replace(s, <<CR, LF>>, <<LF>>)
    /\ pc' = "l72"
    /\ UNCHANGED <<renderer, hookvars, state_src, rendervars, hook_i, result,
                   calls, arg0, callvars>>

ReplaceCR ==
    /\ pc = "l72"
    /\ s' = Replace(s, <<CR>>, <<LF>>)
    /\ pc' = "l73"
    /\ UNCHANGED <<renderer, hookvars, state_src, rendervars, hook_i, result,
                   calls, arg0, callvars>>

AppendNewline ==
    /\ pc = "l73"
    /\ s' = IF ~EndsWith(s, <<LF>>) THEN s \o <<LF>> ELSE s
    /\ pc' = "l76"
    /\ calls' = Append(calls, Call("normalize"))
    /\ UNCHANGED <<renderer, hookvars, state_src, rendervars, hook_i, result,
                   arg0, callvars>>

\* state.process(s) taken to tokenize the text as well as to keep it
Process_Populates ==
    /\ pc = "l76"
    /\ state_src' = s
    /\ tokens' = tokens \o DocOf(s)
    /\ calls' = Append(calls, Call("process"))
    /\ pc' = "l78"
    /\ hook_i' = 1
    /\ UNCHANGED <<s, renderer, hookvars, frames, data, events, tokens0,
                   result, arg0, callvars>>

\* state.process(s): the state keeps the text it is given.
Process ==
    /\ pc = "l76"
    /\ state_src' = s
    /\ calls' = Append(calls, Call("process"))
    /\ pc' = "l78"
    /\ hook_i' = 1
    /\ UNCHANGED <<s, renderer, hookvars, rendervars, result, arg0, callvars>>

(***************************************************************************)
(* parse, lines 78-84: the hooks before block.parse and before rendering.  *)
(***************************************************************************)
\* for hook in <list>: the hook of the i-th turn of the loop, which reads
\* the list as it is at that turn
HookAt_Reversed(list, i) == list[Len(list) - i + 1]

HookAt(list, i) == list[i]

\* a hook putting its token in front of state.tokens
StateHookEffect_Prepend(h, toks) ==
    IF h = "append_token" THEN <<SyntheticTok>> \o toks ELSE toks

\* What a hook called as hook(self, state) leaves in state.tokens.
StateHookEffect(h, toks) ==
    IF h = "append_token" THEN Append(toks, SyntheticTok) ELSE toks

\* a hook registering its hook on a copy of the list
RegisterEffect_Copy(h, list) == list

\* What a hook called as hook(self, state) leaves in
\* self.before_parse_hooks: the hook "register_parse" appends a hook to it.
RegisterEffect(h, list) ==
    IF h = "register_parse" THEN Append(list, "nop") ELSE list

\* lines 78-79, one turn of the loop
BeforeParseHook ==
    /\ pc = "l78"
    /\ hook_i <= Len(before_parse_hooks)
    /\ LET h == HookAt(before_parse_hooks, hook_i)
       IN /\ calls' = Append(calls,
                  HookCall("before_parse", hook_i, h, NoResult, NoResult))
          /\ tokens' = StateHookEffect(h, tokens)
          /\ before_parse_hooks' = RegisterEffect(h, before_parse_hooks)
          /\ IF h = "raise"
             THEN pc' = "raised" /\ UNCHANGED hook_i
             ELSE pc' = pc /\ hook_i' = hook_i + 1
    /\ UNCHANGED <<s, renderer, before_render_hooks, after_render_hooks,
                   state_src, frames, data, events, tokens0, result, arg0,
                   callvars>>

\* block.parse not waiting for the loop of line 78 to end
BlockParse_NoWait ==
    /\ pc = "l78"
    /\ tokens' = tokens \o DocOf(state_src)
    /\ calls' = Append(calls, Call("block.parse"))
    /\ pc' = "l83"
    /\ hook_i' = 1
    /\ UNCHANGED <<s, renderer, hookvars, state_src, frames, data, events,
                   tokens0, result, arg0, callvars>>

\* line 81, self.block.parse(state): the Block Engine puts the document's
\* tokens into state.tokens.
BlockParse ==
    /\ pc = "l78"
    /\ hook_i > Len(before_parse_hooks)
    /\ tokens' = tokens \o DocOf(state_src)
    /\ calls' = Append(calls, Call("block.parse"))
    /\ pc' = "l83"
    /\ hook_i' = 1
    /\ UNCHANGED <<s, renderer, hookvars, state_src, frames, data, events,
                   tokens0, result, arg0, callvars>>

\* lines 83-84 with the hook's exception caught and the loop going on
BeforeRenderHook_Swallow ==
    /\ pc = "l83"
    /\ hook_i <= Len(before_render_hooks)
    /\ LET h == HookAt(before_render_hooks, hook_i)
       IN /\ calls' = Append(calls,
                  HookCall("before_render", hook_i, h, NoResult, NoResult))
          /\ tokens' = StateHookEffect(h, tokens)
          /\ pc' = pc
          /\ hook_i' = hook_i + 1
    /\ UNCHANGED <<s, renderer, hookvars, state_src, frames, data, events,
                   tokens0, result, arg0, callvars>>

\* lines 83-84, one turn of the loop
BeforeRenderHook ==
    /\ pc = "l83"
    /\ hook_i <= Len(before_render_hooks)
    /\ LET h == HookAt(before_render_hooks, hook_i)
       IN /\ calls' = Append(calls,
                  HookCall("before_render", hook_i, h, NoResult, NoResult))
          /\ tokens' = StateHookEffect(h, tokens)
          /\ before_parse_hooks' = RegisterEffect(h, before_parse_hooks)
          /\ IF h = "raise"
             THEN pc' = "raised" /\ UNCHANGED hook_i
             ELSE pc' = pc /\ hook_i' = hook_i + 1
    /\ UNCHANGED <<s, renderer, before_render_hooks, after_render_hooks,
                   state_src, frames, data, events, tokens0, result, arg0,
                   callvars>>

\* the loop of line 83 is exhausted
BeforeRenderDone ==
    /\ pc = "l83"
    /\ hook_i > Len(before_render_hooks)
    /\ pc' = "l86"
    /\ UNCHANGED <<s, renderer, hookvars, state_src, rendervars, hook_i,
                   result, calls, arg0, callvars>>

(***************************************************************************)
(* render_state and _iter_render, lines 42-57.  frames is the stack of     *)
(* live generators: frames[1] iterates state.tokens for the consumer, each *)
(* further frame iterates the 'children' of the token at its path and is   *)
(* drained by the list() of line 52.  A frame holds its path, the index i  *)
(* of its for loop and, for a nested frame, the tokens list() collected.   *)
(***************************************************************************)
Top == frames[Len(frames)]
CurList == ListAt(tokens, Top.path)
CurPath == Top.path \o <<Top.i>>
CurTok == CurList[Top.i]

\* line 57, yield tok: the generator at depth k hands tok to its consumer
\* and its for loop moves on.
Yield(fs, k, tok) ==
    [fs EXCEPT ![k] = [@ EXCEPT !.i = @ + 1,
                                !.out = IF k = 1 THEN @ ELSE Append(@, tok)]]

\* a token yielded in its branch and again at line 57
Delivered_Twice(k, tok) == IF k = 1 THEN data \o <<tok, tok>> ELSE data

Delivered(k, tok) == IF k = 1 THEN Append(data, tok) ELSE data

\* line 43: the generator is created; none of its code has run yet.
RenderState ==
    /\ pc = "l86"
    /\ frames' = <<[path |-> <<>>, i |-> 1, out |-> <<>>]>>
    /\ data' = <<>>
    /\ tokens0' = tokens
    /\ pc' = "render"
    /\ UNCHANGED <<s, renderer, hookvars, state_src, tokens, hook_i, result,
                   calls, events, arg0, callvars>>

\* lines 50-51: a token with 'children': list() starts to drain a generator
\* over them.
IterChildren ==
    /\ pc = "render"
    /\ Top.i <= Len(CurList)
    /\ Has(CurTok, "children")
    /\ frames' = Append(frames, [path |-> CurPath, i |-> 1, out |-> <<>>])
    /\ UNCHANGED <<pc, s, renderer, hookvars, state_src, tokens, hook_i, data,
                   result, calls, events, tokens0, arg0, callvars>>

\* state.env, the mapping that belongs to a state object
EnvOf(st) == [env_of |-> st]

\* lines 54-56 reading tok['text'] without taking it out of the token
ResolveText_NoPop(tok) ==
    SetItem(tok, "children", Inline(Strip(tok.text), EnvOf(state)))

\* lines 54-56 with the inline tokens resolved as block tokens are
ResolveText_Recurse(tok) ==
    LET inl == Inline(Strip(tok.text), EnvOf(state))
        deep(t) ==
            IF Has(t, "children")
            THEN SetItem(t, "children",
                     [k \in 1..Len(t.children) |->
                         IF Has(t.children[k], "text")
                         THEN SetItem(Pop(t.children[k], "text"), "children",
                                  Inline(Strip(t.children[k].text),
                                         EnvOf(state)))
                         ELSE t.children[k]])
            ELSE t
    IN SetItem(Pop(tok, "text"), "children",
               [k \in 1..Len(inl) |-> deep(inl[k])])

\* lines 54-56: the token's text is taken out of it and the inline tokens
\* of the stripped text become its 'children'.
ResolveText(tok) ==
    SetItem(Pop(tok, "text"), "children",
            Inline(Strip(tok.text), EnvOf(state)))

\* line 52 taking the list of a generator that was already consumed
ListOf_Consumed(out) == <<>>

\* line 52 with the yielded tokens listed last first
ListOf_Reversed(out) == [k \in 1..Len(out) |-> out[Len(out) + 1 - k]]

\* line 52: list(children), the tokens the nested generator yielded
ListOf(out) == out

\* lines 53-57: a token with 'text' and no 'children'.
IterText ==
    /\ pc = "render"
    /\ Top.i <= Len(CurList)
    /\ ~Has(CurTok, "children")
    /\ Has(CurTok, "text")
    /\ LET text == CurTok.text
           tok == ResolveText(CurTok)
       IN /\ tokens' = SetTok(tokens, CurPath, tok)
          /\ events' = events \o
                <<[op |-> "inline", path |-> CurPath,
                   tok |-> TextTok(Strip(text)), arg |-> Strip(text),
                   env |-> EnvOf(state), ret |-> tok.children],
                  [op |-> "yield", path |-> CurPath, tok |-> tok]>>
          /\ frames' = Yield(frames, Len(frames), tok)
          /\ data' = Delivered(Len(frames), tok)
    /\ UNCHANGED <<pc, s, renderer, hookvars, state_src, hook_i, result,
                   calls, tokens0, arg0, callvars>>

\* line 57 alone: a token with neither key is yielded as it is.
IterPlain ==
    /\ pc = "render"
    /\ Top.i <= Len(CurList)
    /\ ~Has(CurTok, "children")
    /\ ~Has(CurTok, "text")
    /\ events' = Append(events,
                        [op |-> "yield", path |-> CurPath, tok |-> CurTok])
    /\ frames' = Yield(frames, Len(frames), CurTok)
    /\ data' = Delivered(Len(frames), CurTok)
    /\ UNCHANGED <<pc, s, renderer, hookvars, state_src, tokens, hook_i,
                   result, calls, tokens0, arg0, callvars>>

\* lines 52 and 57 with the parent yielded before its children are drained
ChildrenDone_Early ==
    /\ pc = "render"
    /\ Len(frames) > 1
    /\ LET path == Top.path
           tok == SetItem(TokAt(tokens, path), "children", ListOf(Top.out))
           k == Len(frames) - 1
       IN /\ tokens' = SetTok(tokens, path, tok)
          /\ events' = Append(events,
                              [op |-> "yield", path |-> path, tok |-> tok])
          /\ frames' = Yield(SubSeq(frames, 1, k), k, tok)
          /\ data' = Delivered(k, tok)
    /\ UNCHANGED <<pc, s, renderer, hookvars, state_src, hook_i, result,
                   calls, tokens0, arg0, callvars>>

\* lines 52 and 57: the generator over the children is exhausted; the list
\* of what it yielded becomes the parent's 'children' and the parent is
\* yielded.
ChildrenDone ==
    /\ pc = "render"
    /\ Len(frames) > 1
    /\ Top.i > Len(CurList)
    /\ LET path == Top.path
           tok == SetItem(TokAt(tokens, path), "children", ListOf(Top.out))
           k == Len(frames) - 1
       IN /\ tokens' = SetTok(tokens, path, tok)
          /\ events' = Append(events,
                              [op |-> "yield", path |-> path, tok |-> tok])
          /\ frames' = Yield(SubSeq(frames, 1, k), k, tok)
          /\ data' = Delivered(k, tok)
    /\ UNCHANGED <<pc, s, renderer, hookvars, state_src, hook_i, result,
                   calls, tokens0, arg0, callvars>>

\* line 46 returning before the generator is exhausted
ListDone_Early ==
    /\ pc = "render"
    /\ renderer = "none"
    /\ Len(frames) = 1
    /\ frames' = <<>>
    /\ result' = [by |-> "list", val |-> data, apps |-> <<>>]
    /\ calls' = Append(calls,
                       HookCall("render_state", 0, "-", NoResult, result'))
    /\ pc' = "l88"
    /\ hook_i' = 1
    /\ UNCHANGED <<s, renderer, hookvars, state_src, tokens, data, events,
                   tokens0, arg0, callvars>>

\* line 46, list(data): without a renderer the generator is drained and
\* what it yielded is the result.
ListDone ==
    /\ pc = "render"
    /\ renderer = "none"
    /\ Len(frames) = 1
    /\ Top.i > Len(CurList)
    /\ frames' = <<>>
    /\ result' = [by |-> "list", val |-> data, apps |-> <<>>]
    /\ calls' = Append(calls,
                       HookCall("render_state", 0, "-", NoResult, result'))
    /\ pc' = "l88"
    /\ hook_i' = 1
    /\ UNCHANGED <<s, renderer, hookvars, state_src, tokens, data, events,
                   tokens0, arg0, callvars>>

\* line 45, self.renderer(data, state): the renderer takes tokens from the
\* generator (the Iter actions) and returns when it chooses to, whether or
\* not it has taken them all.
RendererReturn ==
    /\ pc = "render"
    /\ renderer = "callable"
    /\ Len(frames) = 1
    /\ result' = [by |-> "renderer", val |-> data, apps |-> <<>>]
    /\ calls' = Append(calls,
                       HookCall("render_state", 0, "-", NoResult, result'))
    /\ pc' = "l88"
    /\ hook_i' = 1
    /\ UNCHANGED <<s, renderer, hookvars, state_src, rendervars, arg0, callvars>>

(***************************************************************************)
(* parse, lines 88-90: the hooks after rendering, and the return.          *)
(***************************************************************************)
\* What a hook called as hook(self, result, state) returns.
ResultHookValue(h, res) == [res EXCEPT !.apps = Append(@, h)]

\* lines 88-89 with the hook's return value not assigned to result
AfterRenderHook_Dropped ==
    /\ pc = "l88"
    /\ hook_i <= Len(after_render_hooks)
    /\ LET h == HookAt(after_render_hooks, hook_i)
           ret == ResultHookValue(h, result)
       IN IF h = "raise"
          THEN /\ calls' = Append(calls,
                      HookCall("after_render", hook_i, h, result, NoResult))
               /\ pc' = "raised"
               /\ UNCHANGED <<hook_i, result>>
          ELSE /\ calls' = Append(calls,
                      HookCall("after_render", hook_i, h, result, ret))
               /\ result' = result
               /\ hook_i' = hook_i + 1
               /\ pc' = pc
    /\ UNCHANGED <<s, renderer, hookvars, state_src, rendervars, arg0, callvars>>

\* lines 88-89, one turn of the loop
AfterRenderHook ==
    /\ pc = "l88"
    /\ hook_i <= Len(after_render_hooks)
    /\ LET h == HookAt(after_render_hooks, hook_i)
           ret == ResultHookValue(h, result)
       IN IF h = "raise"
          THEN /\ calls' = Append(calls,
                      HookCall("after_render", hook_i, h, result, NoResult))
               /\ pc' = "raised"
               /\ UNCHANGED <<hook_i, result>>
          ELSE /\ calls' = Append(calls,
                      HookCall("after_render", hook_i, h, result, ret))
               /\ result' = ret
               /\ hook_i' = hook_i + 1
               /\ pc' = pc
    /\ UNCHANGED <<s, renderer, hookvars, state_src, rendervars, arg0, callvars>>

\* What the caller is handed, a (result, state) pair or a result alone,
\* and the pre-parse hooks the instance has by then.
Returned(pair, res, st) ==
    [entry |-> entry, arg |-> arg, pair |-> pair, result |-> res,
     state |-> st, made |-> made, hooks |-> before_parse_hooks]

\* line 90: return result, state -- to the caller, or to read or __call__
Return ==
    /\ pc = "l88"
    /\ hook_i > Len(after_render_hooks)
    /\ calls' = Append(calls, Call("return"))
    /\ IF entry = "parse"
       THEN /\ pc' = "returned"
            /\ returns' = Append(returns, Returned(TRUE, result, state))
       ELSE /\ pc' = "l90"
            /\ UNCHANGED returns
    /\ UNCHANGED <<s, renderer, hookvars, state_src, rendervars, hook_i,
                   result, arg0, entry, arg, encoding, raw, state, made,
                   env_file, tokens_in, read_error, ncalls,
                   state_arg>>

(***************************************************************************)
(* __call__ (lines 103-106).                                               *)
(***************************************************************************)
\* What __call__ is called with in SpecEntry.
CallArgs == {NoneValue, <<>>, <<LF>>, <<">", "a">>}

\* md(s) is called by the user of the instance.
CallCall ==
    /\ pc = "idle"
    /\ arg' \in CallArgs
    /\ entry' = "call"
    /\ state' = NoneState
    /\ state_arg' = NoneState
    /\ tokens' = <<>>
    /\ env_file' = "unset"
    /\ s' = <<>>
    /\ arg0' = <<>>
    /\ NewInvocation
    /\ pc' = "l104"
    /\ UNCHANGED <<encoding, raw>>

\* lines 104-105: if s is None: s = '\n'
CallDefault ==
    /\ pc = "l104"
    /\ s' = IF arg = NoneValue THEN <<LF>> ELSE arg
    /\ pc' = "l106"
    /\ UNCHANGED <<renderer, hookvars, state_src, rendervars, hook_i, result,
                   calls, arg0, callvars>>

\* line 106: self.parse(s), no state given
CallParse ==
    /\ pc = "l106"
    /\ arg0' = s
    /\ pc' = "l67"
    /\ UNCHANGED <<s, renderer, hookvars, state_src, rendervars, hook_i,
                   result, calls, callvars>>

\* line 106 returning the pair parse returned
CallReturn_Pair ==
    /\ pc = "l90"
    /\ entry = "call"
    /\ returns' = Append(returns, Returned(TRUE, result, state))
    /\ pc' = "returned"
    /\ UNCHANGED <<s, renderer, hookvars, state_src, rendervars, hook_i,
                   result, calls, arg0, entry, arg, encoding, raw, state,
                   made, env_file, tokens_in, read_error, ncalls,
                   state_arg>>

\* line 106: return self.parse(s)[0]
CallReturn ==
    /\ pc = "l90"
    /\ entry = "call"
    /\ returns' = Append(returns, Returned(FALSE, result, NoneState))
    /\ pc' = "returned"
    /\ UNCHANGED <<s, renderer, hookvars, state_src, rendervars, hook_i,
                   result, calls, arg0, entry, arg, encoding, raw, state,
                   made, env_file, tokens_in, read_error, ncalls,
                   state_arg>>

(***************************************************************************)
(* read (lines 92-101).                                                    *)
(***************************************************************************)
\* The files of the model: their bytes, and a path nothing is at.
Files == {"ok.md", "latin.md", "missing.md"}
Encodings == {"utf-8", "latin-1"}
Exists(path) == path # "missing.md"
FileBytes(path) ==
    IF path = "ok.md" THEN <<62, 97, 13, 10>> ELSE <<97, 255>>

\* bytes.decode(encoding): the byte 0xFF is in no UTF-8 text, and is a
\* letter of Latin-1.
CharOf(b) ==
    CASE b = 10 -> LF
      [] b = 13 -> CR
      [] b = 62 -> ">"
      [] b = 97 -> "a"
      [] b = 255 -> "U+00FF"
DecodeFails(bytes, enc) ==
    enc = "utf-8" /\ \E k \in 1..Len(bytes) : bytes[k] = 255
Decode(bytes, enc) == [k \in 1..Len(bytes) |-> CharOf(bytes[k])]

\* read(filepath, encoding, state) is called by the user of the instance.
ReadCall ==
    /\ pc = "idle"
    /\ arg' \in Files
    /\ encoding' \in Encodings
    /\ entry' = "read"
    /\ StateArgument
    /\ raw' = <<>>
    /\ s' = <<>>
    /\ arg0' = <<>>
    /\ NewInvocation
    /\ pc' = "l93"

\* lines 93-94: if state is None: state = self.block.state_cls()
ReadCreateState ==
    /\ pc = "l93"
    /\ IF state = NoneState
       THEN /\ state' = MadeState(ncalls, made + 1)
            /\ made' = made + 1
            /\ tokens' = <<>>
            /\ env_file' = "unset"
       ELSE UNCHANGED <<state, made, tokens, env_file>>
    /\ pc' = "l96"
    /\ UNCHANGED <<s, renderer, hookvars, state_src, frames, data, events,
                   tokens0, hook_i, result, calls, arg0, entry, arg,
                   encoding, raw, tokens_in, returns, read_error, ncalls,
                   state_arg>>

\* line 96: state.env['__file__'] = filepath
ReadSetFile ==
    /\ pc = "l96"
    /\ env_file' = arg
    /\ pc' = "l97"
    /\ UNCHANGED <<s, renderer, hookvars, state_src, rendervars, hook_i,
                   result, calls, arg0, entry, arg, encoding, raw, state,
                   made, tokens_in, returns, read_error, ncalls,
                   state_arg>>

\* lines 97-98 reached with the path not yet in state.env
ReadOpen_First ==
    /\ pc = "l97"
    /\ IF Exists(arg)
       THEN /\ raw' = FileBytes(arg)
            /\ pc' = "l100"
            /\ UNCHANGED <<read_error, env_file>>
       ELSE /\ pc' = "raised"
            /\ read_error' = "IOError"
            /\ env_file' = "unset"
            /\ UNCHANGED raw
    /\ UNCHANGED <<s, renderer, hookvars, state_src, rendervars, hook_i,
                   result, calls, arg0, entry, arg, encoding, state,
                   made, tokens_in, returns, ncalls,
                   state_arg>>

\* lines 97-98: with open(filepath, 'rb') as f: s = f.read()
ReadOpen ==
    /\ pc = "l97"
    /\ IF Exists(arg)
       THEN /\ raw' = FileBytes(arg)
            /\ pc' = "l100"
            /\ UNCHANGED read_error
       ELSE /\ pc' = "raised"
            /\ read_error' = "IOError"
            /\ UNCHANGED raw
    /\ UNCHANGED <<s, renderer, hookvars, state_src, rendervars, hook_i,
                   result, calls, arg0, entry, arg, encoding, state,
                   made, env_file, tokens_in, returns, ncalls,
                   state_arg>>

\* line 100: s = s.decode(encoding)
ReadDecode ==
    /\ pc = "l100"
    /\ IF DecodeFails(raw, encoding)
       THEN /\ pc' = "raised"
            /\ read_error' = "DecodeError"
            /\ UNCHANGED s
       ELSE /\ s' = Decode(raw, encoding)
            /\ pc' = "l101"
            /\ UNCHANGED read_error
    /\ UNCHANGED <<renderer, hookvars, state_src, rendervars, hook_i,
                   result, calls, arg0, entry, arg, encoding, raw, state,
                   made, env_file, tokens_in, returns, ncalls,
                   state_arg>>

\* line 101: self.parse(s, state)
ReadParse ==
    /\ pc = "l101"
    /\ arg0' = s
    /\ pc' = "l67"
    /\ UNCHANGED <<s, renderer, hookvars, state_src, rendervars, hook_i,
                   result, calls, callvars>>

\* line 101: return self.parse(s, state)
ReadReturn ==
    /\ pc = "l90"
    /\ entry = "read"
    /\ returns' = Append(returns, Returned(TRUE, result, state))
    /\ pc' = "returned"
    /\ UNCHANGED <<s, renderer, hookvars, state_src, rendervars, hook_i,
                   result, calls, arg0, entry, arg, encoding, raw, state,
                   made, env_file, tokens_in, read_error, ncalls,
                   state_arg>>

\* The user of the instance, back from one invocation, makes another.
Again ==
    /\ pc \in {"returned", "raised"}
    /\ ncalls < MaxCalls
    /\ pc' = "idle"
    /\ UNCHANGED <<s, renderer, hookvars, state_src, rendervars, hook_i,
                   result, calls, arg0, callvars>>

Next ==
    \/ Use
    \/ ParseCall
    \/ CreateState
    \/ ReplaceCRLF
    \/ ReplaceCR
    \/ AppendNewline
    \/ Process
    \/ BeforeParseHook
    \/ BlockParse
    \/ BeforeRenderHook
    \/ BeforeRenderDone
    \/ RenderState
    \/ IterChildren
    \/ IterText
    \/ IterPlain
    \/ ChildrenDone
    \/ ListDone
    \/ RendererReturn
    \/ AfterRenderHook
    \/ Return

Spec == Init /\ [][Next]_vars

(***************************************************************************)
(* SpecNormalize: parse is entered with every text up to MaxSrcLen and     *)
(* runs to the call of state.process.                                      *)
(***************************************************************************)
InitNormalize ==
    /\ arg0 \in StringsUpTo(SrcChars, MaxSrcLen)
    /\ s = arg0
    /\ pc = "l71"
    /\ renderer = "none"
    /\ before_parse_hooks = <<>>
    /\ before_render_hooks = <<>>
    /\ after_render_hooks = <<>>
    /\ state_src = <<>>
    /\ tokens = <<>>
    /\ hook_i = 0
    /\ frames = <<>>
    /\ data = <<>>
    /\ result = NoResult
    /\ calls = <<>>
    /\ events = <<>>
    /\ tokens0 = <<>>
    /\ NoCall

NextNormalize == ReplaceCRLF \/ ReplaceCR \/ AppendNewline \/ Process

SpecNormalize == InitNormalize /\ [][NextNormalize]_vars

(***************************************************************************)
(* SpecResolve: render_state without a renderer, on every token tree of up *)
(* to MaxNodes tokens.                                                     *)
(***************************************************************************)
InitResolve ==
    /\ tokens \in Forests(MaxNodes)
    /\ pc = "l86"
    /\ renderer = "none"
    /\ arg0 = <<>>
    /\ s = <<LF>>
    /\ state_src = <<LF>>
    /\ before_parse_hooks = <<>>
    /\ before_render_hooks = <<>>
    /\ after_render_hooks = <<>>
    /\ hook_i = 0
    /\ frames = <<>>
    /\ data = <<>>
    /\ result = NoResult
    /\ calls = <<>>
    /\ events = <<>>
    /\ tokens0 = <<>>
    /\ entry = "parse"
    /\ arg = <<>>
    /\ encoding = "-"
    /\ raw = <<>>
    /\ state = CallerState
    /\ state_arg = CallerState
    /\ made = 0
    /\ env_file = "unset"
    /\ tokens_in = <<>>
    /\ returns = <<>>
    /\ read_error = "none"
    /\ ncalls = 1

NextResolve ==
    \/ RenderState
    \/ IterChildren
    \/ IterText
    \/ IterPlain
    \/ ChildrenDone
    \/ ListDone

SpecResolve == InitResolve /\ [][NextResolve]_vars

(***************************************************************************)
(* SpecEntry: an instance without renderer, with no hook or with one hook  *)
(* of each stage, is invoked up to MaxCalls times through parse, read and  *)
(* __call__.                                                               *)
(***************************************************************************)
InitEntry ==
    /\ renderer = "none"
    /\ \/ /\ before_parse_hooks = <<>>
          /\ before_render_hooks = <<>>
          /\ after_render_hooks = <<>>
       \/ /\ before_parse_hooks = <<"append_token">>
          /\ before_render_hooks = <<"nop">>
          /\ after_render_hooks = <<"wrap">>
    /\ pc = "idle"
    /\ s = <<>>
    /\ arg0 = <<>>
    /\ state_src = <<>>
    /\ tokens = <<>>
    /\ hook_i = 0
    /\ frames = <<>>
    /\ data = <<>>
    /\ result = NoResult
    /\ calls = <<>>
    /\ events = <<>>
    /\ tokens0 = <<>>
    /\ NoCall

NextEntry ==
    \/ ParseCall
    \/ CallCall
    \/ CallDefault
    \/ CallParse
    \/ ReadCall
    \/ ReadCreateState
    \/ ReadSetFile
    \/ ReadOpen
    \/ ReadDecode
    \/ ReadParse
    \/ CreateState
    \/ ReplaceCRLF
    \/ ReplaceCR
    \/ AppendNewline
    \/ Process
    \/ BeforeParseHook
    \/ BlockParse
    \/ BeforeRenderHook
    \/ BeforeRenderDone
    \/ RenderState
    \/ IterChildren
    \/ IterText
    \/ IterPlain
    \/ ChildrenDone
    \/ ListDone
    \/ AfterRenderHook
    \/ Return
    \/ CallReturn
    \/ ReadReturn
    \/ Again

SpecEntry == InitEntry /\ [][NextEntry]_vars

(***************************************************************************)
(* SpecLive: an instance with hooks that register hooks while parse runs   *)
(* is given up to MaxCalls texts to parse.                                 *)
(***************************************************************************)
InitLive ==
    /\ renderer = "none"
    /\ before_parse_hooks \in
          {<<>>, <<"register_parse">>, <<"nop", "register_parse">>}
    /\ before_render_hooks \in {<<>>, <<"register_parse">>}
    /\ after_render_hooks = <<"wrap">>
    /\ pc = "idle"
    /\ s = <<>>
    /\ arg0 = <<>>
    /\ state_src = <<>>
    /\ tokens = <<>>
    /\ hook_i = 0
    /\ frames = <<>>
    /\ data = <<>>
    /\ result = NoResult
    /\ calls = <<>>
    /\ events = <<>>
    /\ tokens0 = <<>>
    /\ NoCall

NextLive ==
    \/ ParseCall
    \/ CreateState
    \/ ReplaceCRLF
    \/ ReplaceCR
    \/ AppendNewline
    \/ Process
    \/ BeforeParseHook
    \/ BlockParse
    \/ BeforeRenderHook
    \/ BeforeRenderDone
    \/ RenderState
    \/ IterChildren
    \/ IterText
    \/ IterPlain
    \/ ChildrenDone
    \/ ListDone
    \/ AfterRenderHook
    \/ Return
    \/ Again

SpecLive == InitLive /\ [][NextLive]_vars

(***************************************************************************)
(* Properties.                                                             *)
(***************************************************************************)
IsPrefix(a, b) == Len(a) <= Len(b) /\ SubSeq(b, 1, Len(a)) = a

Names(cs) == [k \in 1..Len(cs) |-> cs[k].call]

Repeat(name, n) == [k \in 1..n |-> name]

\* The calls of one parse that returns, every hook of every list counted.
StageOrder ==
    <<"normalize", "process">>
        \o Repeat("before_parse", Len(before_parse_hooks))
        \o <<"block.parse">>
        \o Repeat("before_render", Len(before_render_hooks))
        \o <<"render_state">>
        \o Repeat("after_render", Len(after_render_hooks))
        \o <<"return">>

\* C1: a parse call that returns has run normalisation, state.process, the
\* pre-parse hooks, block.parse, the pre-render hooks, render_state, the
\* post-render hooks and the return once each, in this order; a call still
\* running has run an initial part of that order.
C1_StageOrder ==
    /\ IsPrefix(Names(calls), StageOrder)
    /\ pc = "returned" => Names(calls) = StageOrder

C1_Witness ==
    /\ pc = "returned"
    /\ before_parse_hooks # <<>>
    /\ before_render_hooks # <<>>
    /\ after_render_hooks # <<>>

Count(str, c) == Cardinality({i \in 1..Len(str) : str[i] = c})

\* The positions of a text that survive line 71: all but the '\r' of a
\* '\r\n' pair.
Kept(str) ==
    {i \in 1..Len(str) : ~(str[i] = CR /\ i < Len(str) /\ str[i + 1] = LF)}

Rank(set, i) == Cardinality({j \in set : j <= i})

LacksLineEnd(str) == str = <<>> \/ str[Len(str)] \notin {CR, LF}

\* C2 as claimed: the text given to state.process has no '\r' and ends with
\* exactly one newline.
C2_ExactlyOneNewline ==
    pc = "l78" =>
        /\ Count(state_src, CR) = 0
        /\ EndsWith(state_src, <<LF>>)
        /\ ~EndsWith(state_src, <<LF, LF>>)

\* C2 amended: the text given to state.process has no '\r' and ends with a
\* newline; it is the original with each '\r\n' pair and each lone '\r'
\* turned into one '\n', every other character kept in place, and one
\* '\n' appended exactly when the original was empty or ended in neither
\* '\n' nor '\r'.  Several line endings at the end all stay.
C2_Normalized ==
    pc = "l78" =>
        /\ Count(state_src, CR) = 0
        /\ EndsWith(state_src, <<LF>>)
        /\ Len(state_src) =
              Cardinality(Kept(arg0)) + (IF LacksLineEnd(arg0) THEN 1 ELSE 0)
        /\ \A i \in Kept(arg0) :
              state_src[Rank(Kept(arg0), i)] =
                  (IF arg0[i] = CR THEN LF ELSE arg0[i])

C2_Witness ==
    /\ pc = "l78"
    /\ \E i \in 1..Len(arg0) : i \notin Kept(arg0)
    /\ \E i \in Kept(arg0) : arg0[i] = CR
    /\ LacksLineEnd(arg0)
    /\ state_src # arg0 \o <<LF>>

\* Every token, at every depth, has 'children' and none has 'text'.
RECURSIVE AllResolved(_)
AllResolved(toks) ==
    \A i \in 1..Len(toks) :
        /\ Has(toks[i], "children")
        /\ ~Has(toks[i], "text")
        /\ AllResolved(toks[i].children)

RawLeaf(tok) == Has(tok, "text") /\ ~Has(tok, "children")

\* C3 as claimed: once the generator is drained, every token at every depth
\* has 'children' and none has 'text'.
C3_AllChildren == pc = "l88" => AllResolved(tokens)

\* C3 amended: once the generator is drained, a token of the block tree has
\* 'children' exactly if it had 'children' or 'text' before, and has 'text'
\* exactly if it had both 'text' and 'children' before: raw leaves gained
\* 'children' and lost 'text', a token with neither key still has neither.
C3_Resolved ==
    pc = "l88" =>
        \A p \in Paths(tokens0) :
            LET before == TokAt(tokens0, p)
                after == TokAt(tokens, p)
            IN /\ Has(after, "children") <=>
                     (Has(before, "children") \/ Has(before, "text"))
               /\ Has(after, "text") <=>
                     (Has(before, "children") /\ Has(before, "text"))

C3_Witness ==
    /\ pc = "l88"
    /\ \E p \in Paths(tokens0) : Len(p) = 2 /\ RawLeaf(TokAt(tokens0, p))
    /\ \E p \in Paths(tokens0) : DOMAIN TokAt(tokens0, p) = {"type"}

HooksOf(stage) ==
    CASE stage = "before_parse" -> before_parse_hooks
      [] stage = "before_render" -> before_render_hooks
      [] stage = "after_render" -> after_render_hooks

IsBeforeParse(c) == c.call = "before_parse"
IsBeforeRender(c) == c.call = "before_render"
IsAfterRender(c) == c.call = "after_render"
IsRenderState(c) == c.call = "render_state"

HookCalls(stage) ==
    CASE stage = "before_parse" -> SelectSeq(calls, IsBeforeParse)
      [] stage = "before_render" -> SelectSeq(calls, IsBeforeRender)
      [] stage = "after_render" -> SelectSeq(calls, IsAfterRender)

\* C4: in each of the three stages the k-th invocation is of the k-th hook
\* of the stage's list, and a parse call that returns has invoked every
\* entry of every list, a hook registered several times as many times.
C4_FIFO ==
    \A stage \in {"before_parse", "before_render", "after_render"} :
        LET done == HookCalls(stage)
            list == HooksOf(stage)
        IN /\ Len(done) <= Len(list)
           /\ \A k \in 1..Len(done) : done[k].i = k /\ done[k].hook = list[k]
           /\ pc = "returned" => Len(done) = Len(list)

C4_Witness ==
    /\ pc = "returned"
    /\ before_parse_hooks = <<"nop", "append_token", "nop">>

\* C5: the first post-render hook receives what render_state returned,
\* each later one what the hook before it returned, and parse returns what
\* the last one returned (what render_state returned if there is none).
C5_Fold ==
    LET done == HookCalls("after_render")
        rendered == SelectSeq(calls, IsRenderState)
    IN /\ \A k \in 1..Len(done) :
             /\ Len(rendered) = 1
             /\ done[k].arg = (IF k = 1 THEN rendered[1].ret
                                        ELSE done[k - 1].ret)
       /\ pc = "returned" =>
             /\ Len(rendered) = 1
             /\ result = (IF done = <<>> THEN rendered[1].ret
                                         ELSE done[Len(done)].ret)
             /\ result.val = rendered[1].ret.val
             /\ result.apps = after_render_hooks

C5_Witness ==
    /\ pc = "returned"
    /\ after_render_hooks = <<"wrap", "count">>
    /\ result.apps = <<"wrap", "count">>
    /\ result.val # <<>>

\* C6: once a hook has raised, parse is over with the exception: the
\* raising invocation is the last call parse made, parse never returns,
\* and a raise before rendering leaves no token resolved and no result.
C6_HookRaises ==
    /\ \A k \in 1..Len(calls) :
          calls[k].hook = "raise" => k = Len(calls) /\ pc = "raised"
    /\ pc = "raised" =>
          /\ calls[Len(calls)].hook = "raise"
          /\ calls[Len(calls)].call \in {"before_parse", "before_render"} =>
                frames = <<>> /\ events = <<>> /\ result = NoResult

C6_Witness ==
    /\ pc = "raised"
    /\ calls[Len(calls)].call = "before_render"
    /\ calls[Len(calls)].i < Len(before_render_hooks)
    /\ after_render_hooks # <<>>
    /\ tokens # <<>>

IsProperPrefix(p, q) == Len(p) < Len(q) /\ SubSeq(q, 1, Len(p)) = p

YieldedBefore(k, q) ==
    \E j \in 1..(k - 1) : events[j].op = "yield" /\ events[j].path = q

\* C7: when a token with children is yielded, every descendant has been
\* yielded, every inline call for a descendant has been made, and the
\* token's 'children' is the list of its resolved children as yielded.
C7_PostOrder ==
    \A k \in 1..Len(events) :
        (events[k].op = "yield"
            /\ Has(TokAt(tokens0, events[k].path), "children")) =>
        LET p == events[k].path
            n == Len(TokAt(tokens0, p).children)
            tok == events[k].tok
        IN /\ \A q \in Paths(tokens0) :
                 IsProperPrefix(p, q) =>
                    /\ YieldedBefore(k, q)
                    /\ RawLeaf(TokAt(tokens0, q)) =>
                          \E j \in 1..(k - 1) :
                              events[j].op = "inline" /\ events[j].path = q
           /\ Has(tok, "children")
           /\ Len(tok.children) = n
           /\ \A c \in 1..n :
                 \E j \in 1..(k - 1) :
                     events[j] = [op |-> "yield", path |-> p \o <<c>>,
                                  tok |-> tok.children[c]]
           /\ TokAt(tokens, p) = tok

C7_Witness ==
    /\ pc = "l88"
    /\ \E q \in Paths(tokens0) : Len(q) = 3 /\ RawLeaf(TokAt(tokens0, q))

\* C8: resolving a tree in which every token has 'children' and none has
\* 'text' calls the Inline Engine never and leaves the tree as it was.
C8_Idempotent ==
    (pc \in {"render", "l88"} /\ AllResolved(tokens0)) =>
        /\ \A k \in 1..Len(events) : events[k].op # "inline"
        /\ tokens = tokens0
        /\ pc = "l88" => result.val = tokens0

C8_Witness ==
    /\ pc = "l88"
    /\ AllResolved(tokens0)
    /\ \E p \in Paths(tokens0) : Len(p) = 2
    /\ Len(tokens0) = 2

IsTopYield(e) == e.op = "yield" /\ Len(e.path) = 1

YieldsOf(p) ==
    {k \in 1..Len(events) : events[k].op = "yield" /\ events[k].path = p}

\* C9: the generator yields every token once, the top-level ones in input
\* order, and without a renderer the result is the list of the top-level
\* tokens of state.tokens, resolved, in their order; one paragraph with a
\* raw text gives one paragraph whose children are the inline tokens.
C9_SinglePass ==
    /\ \A p \in Paths(tokens0) : Cardinality(YieldsOf(p)) <= 1
    /\ pc = "l88" =>
          LET top == SelectSeq(events, IsTopYield)
          IN /\ Len(result.val) = Len(tokens0)
             /\ Len(tokens) = Len(tokens0)
             /\ \A i \in 1..Len(tokens) : result.val[i] = tokens[i]
             /\ Len(top) = Len(tokens0)
             /\ \A i \in 1..Len(top) : top[i].path = <<i>>
             /\ \A p \in Paths(tokens0) : Cardinality(YieldsOf(p)) = 1
             /\ tokens0 = <<[type |-> "paragraph", text |-> <<" ", "a", " ">>]>> =>
                   result.val =
                       <<[type |-> "paragraph",
                          children |-> <<[type |-> "text",
                                          raw |-> <<"a">>]>>]>>

C9_Witness ==
    /\ pc = "l88"
    /\ Len(tokens0) = 2
    /\ RawLeaf(tokens0[1])
    /\ Has(tokens0[2], "children") /\ tokens0[2].children # <<>>

YieldedPaths ==
    {events[k].path : k \in {j \in 1..Len(events) : events[j].op = "yield"}}

\* Every token of the tree render_state was given has been yielded, and
\* none is left with a raw text to resolve.
ResolutionComplete ==
    /\ Paths(tokens0) \subseteq YieldedPaths
    /\ \A p \in Paths(tokens0) : ~RawLeaf(TokAt(tokens, p))

\* C10 as claimed: when the post-render hooks begin and when parse returns,
\* resolution is complete, whatever the renderer.
C10_AlwaysDrained == pc \in {"l88", "returned"} => ResolutionComplete

\* C10 amended: when the post-render hooks begin and when parse returns,
\* resolution is complete if there is no renderer or the renderer has taken
\* every token of the sequence it was given.
C10_DrainedIfConsumed ==
    (pc \in {"l88", "returned"}
        /\ (renderer = "none" \/ Len(data) = Len(tokens0))) =>
    ResolutionComplete

C10_Witness ==
    /\ pc = "returned"
    /\ renderer = "callable"
    /\ Len(data) = Len(tokens0)
    /\ \E p \in Paths(tokens0) : Len(p) = 2 /\ RawLeaf(TokAt(tokens0, p))

(***************************************************************************)
(* The pre-parse hooks and block.parse (lines 76-81).                      *)
(***************************************************************************)
IsAppendToken(c) == c.hook = "append_token"

\* The tokens the hooks invoked so far in a stage have appended.
AppendedIn(stage) ==
    Repeat(SyntheticTok, Len(SelectSeq(HookCalls(stage), IsAppendToken)))

FirstPreParseHookDue ==
    pc = "l78" /\ hook_i = 1 /\ before_parse_hooks # <<>>

\* C11 as claimed: at the moment the first pre-parse hook runs, state.tokens
\* already holds the block tokens of the document.
C11_TokensBeforeHooks ==
    FirstPreParseHookDue => tokens = tokens_in \o DocOf(state_src)

\* C11 amended: the pre-parse hooks run after state.process has loaded the
\* normalized text and before block.parse: while they run state.tokens
\* holds what the state came with and what the hooks appended, no block
\* token of the document, and block.parse appends the document's tokens
\* when the last of them has returned.
C11_HooksBeforeBlockParse ==
    /\ pc = "l78" =>
          /\ \E k \in 1..Len(calls) : calls[k].call = "process"
          /\ \A k \in 1..Len(calls) : calls[k].call # "block.parse"
          /\ state_src = s
          /\ tokens = tokens_in \o AppendedIn("before_parse")
    /\ FirstPreParseHookDue => tokens = tokens_in
    /\ (pc = "l83" /\ hook_i = 1) =>
          /\ Len(HookCalls("before_parse")) = Len(before_parse_hooks)
          /\ tokens = tokens_in \o AppendedIn("before_parse")
                          \o DocOf(state_src)

C11_Witness ==
    /\ FirstPreParseHookDue
    /\ state_src = <<">", " ", "a", LF>>
    /\ tokens = <<PlainTok>>

(***************************************************************************)
(* A token appended by a pre-parse hook, in the result.                    *)
(***************************************************************************)
\* The token of the hook "append_token" after resolution.
ResolvedSynthetic ==
    [type |-> "paragraph",
     children |-> <<[type |-> "text", raw |-> <<"a">>]>>]

LastReturn == returns[Len(returns)]

Absent(a) == a = <<>> \/ a = NoneValue

\* parse(text) with no state given, as the caller got it back
IsDirectParse(r, text) ==
    r.entry = "parse" /\ r.arg = text /\ r.state.kind = "made"

\* C13: __call__ with '' or with None gives state.process the text "\n"
\* and returns what parse("\n") with no state returns, which is what
\* __call__("\n") returns; and __call__ returns the result of its parse
\* alone, without the state.
C13_CallShorthand ==
    /\ (entry = "call" /\ Absent(arg) /\ state_src # <<>>) =>
          state_src = <<LF>>
    /\ \A i \in 1..Len(returns) : \A j \in 1..Len(returns) :
          (returns[i].entry = "call" /\ Absent(returns[i].arg)) =>
             /\ IsDirectParse(returns[j], <<LF>>) =>
                   returns[i].result = returns[j].result
             /\ (returns[j].entry = "call"
                   /\ (Absent(returns[j].arg) \/ returns[j].arg = <<LF>>)) =>
                   returns[i].result = returns[j].result
    /\ \A i \in 1..Len(returns) :
          returns[i].entry = "call" =>
             /\ ~returns[i].pair
             /\ returns[i].state = NoneState
    /\ (pc = "returned" /\ entry = "call") =>
          /\ returns # <<>>
          /\ LastReturn.entry = "call"
          /\ LastReturn.result = result
          /\ LastReturn.arg = arg

C13_Witness ==
    /\ Len(returns) = 2
    /\ returns[1].entry = "call"
    /\ returns[1].arg = NoneValue
    /\ IsDirectParse(returns[2], <<LF>>)
    /\ returns[2].pair
    /\ returns[2].result.val =
          <<ResolvedSynthetic, [type |-> "blank_line"]>>
    /\ returns[2].result.apps = <<"wrap">>

\* C14: in read the path is in state.env['__file__'] from line 96 on,
\* before the file is opened, decoded or parsed; a path that cannot be
\* opened raises IOError and bytes not valid in the encoding raise
\* DecodeError, and then no stage and no hook of parse has run, nothing is
\* returned, and the state, the caller's own if one was given, has
\* '__file__' set to the path.
C14_ReadRecordsPath ==
    entry = "read" =>
       /\ pc \notin {"l93", "l96"} => env_file = arg
       /\ (raw # <<>> \/ s # <<>> \/ calls # <<>>) => env_file = arg
       /\ pc \in {"l93", "l96", "l97"} => raw = <<>> /\ s = <<>>
       /\ (pc = "raised" /\ read_error # "none") =>
             /\ calls = <<>>
             /\ events = <<>>
             /\ state_src = <<>>
             /\ tokens0 = <<>>
             /\ result = NoResult
             /\ Len(returns) < ncalls
             /\ env_file = arg
             /\ state_arg # NoneState => state = state_arg
       /\ (arg = "missing.md" /\ pc \notin {"l93", "l96", "l97"}) =>
             pc \in {"raised", "idle"} /\ read_error = "IOError"
       /\ (arg = "latin.md" /\ encoding = "utf-8"
             /\ pc \notin {"l93", "l96", "l97", "l100"}) =>
             pc \in {"raised", "idle"} /\ read_error = "DecodeError"
       /\ (arg = "latin.md" /\ encoding = "latin-1" /\ calls # <<>>) =>
             arg0 = <<"a", "U+00FF">>

C14_Witness ==
    /\ entry = "read"
    /\ pc = "raised"
    /\ read_error = "DecodeError"
    /\ state = CallerState
    /\ tokens = <<PlainTok>>
    /\ env_file = "latin.md"

\* C15: one invocation calls the state factory once if no state was given
\* and never if one was; read hands its state to parse, which makes no
\* other; every stage and hook of parse is given that one state, and it is
\* the state parse and read return.
C15_OneState ==
    /\ made <= 1
    /\ state_arg # NoneState => made = 0 /\ state = state_arg
    /\ (state_arg = NoneState /\ (calls # <<>> \/ pc = "l71")) =>
          made = 1 /\ state = MadeState(ncalls, 1)
    /\ (state_arg = NoneState /\ entry = "read"
          /\ pc \notin {"l93", "idle"}) =>
          made = 1 /\ state = MadeState(ncalls, 1)
    /\ \A k \in 1..Len(calls) : calls[k].state = state
    /\ (pc = "returned" /\ entry \in {"parse", "read"}) =>
          /\ LastReturn.pair
          /\ LastReturn.state = state
          /\ LastReturn.made = made
          /\ \A k \in 1..Len(calls) : calls[k].state = LastReturn.state
          /\ Names(calls) = StageOrder

C15_Witness ==
    /\ pc = "returned"
    /\ entry = "read"
    /\ state_arg = NoneState
    /\ made = 1
    /\ LastReturn.state = MadeState(ncalls, 1)
    /\ before_parse_hooks # <<>>
    /\ ncalls = 2

(***************************************************************************)
(* The calls of the Inline Engine, and what resolution leaves alone.       *)
(***************************************************************************)
IsInline(e) == e.op = "inline"

InlineCalls == SelectSeq(events, IsInline)

RawLeafPaths(toks) == {p \in Paths(toks) : RawLeaf(TokAt(toks, p))}

\* p comes before q in document order, depth first and left to right
DocBefore(p, q) ==
    \E k \in 1..Len(q) :
        /\ k <= Len(p) + 1
        /\ SubSeq(p, 1, k - 1) = SubSeq(q, 1, k - 1)
        /\ IF k > Len(p) THEN TRUE ELSE p[k] < q[k]

\* t is x without the whitespace at its two ends
IsStripOf(t, x) ==
    \E a \in 1..(Len(x) + 1) : \E b \in 0..Len(x) :
        /\ a <= b + 1
        /\ t = SubSeq(x, a, b)
        /\ \A i \in 1..(a - 1) : x[i] \in {" ", "\n"}
        /\ \A i \in (b + 1)..Len(x) : x[i] \in {" ", "\n"}
        /\ a <= b => (x[a] \notin {" ", "\n"} /\ x[b] \notin {" ", "\n"})

\* C16: the calls of the Inline Engine are made in document order, at most
\* one for a token, each for a token that had a text and no 'children',
\* with that text stripped at both ends and with the env of the state; when
\* the generator is drained there has been one for every such token, those
\* with a text that is empty once stripped included.
C16_InlineCalls ==
    LET inl == InlineCalls
    IN /\ \A k \in 1..Len(inl) :
             /\ inl[k].path \in RawLeafPaths(tokens0)
             /\ IsStripOf(inl[k].arg, TokAt(tokens0, inl[k].path).text)
             /\ inl[k].env = EnvOf(state)
             /\ \A j \in 1..(k - 1) : DocBefore(inl[j].path, inl[k].path)
             /\ \A q \in RawLeafPaths(tokens0) :
                   DocBefore(q, inl[k].path) =>
                      \E j \in 1..(k - 1) : inl[j].path = q
       /\ pc = "l88" =>
             /\ Len(inl) = Cardinality(RawLeafPaths(tokens0))
             /\ \A q \in RawLeafPaths(tokens0) :
                   \E k \in 1..Len(inl) : inl[k].path = q
             /\ \A q \in RawLeafPaths(tokens0) :
                   TokAt(tokens0, q).text \in {<<>>, <<" ">>} =>
                      \E k \in 1..Len(inl) :
                          inl[k].path = q /\ inl[k].arg = <<>>

C16_Witness ==
    /\ pc = "l88"
    /\ Len(InlineCalls) = 2
    /\ InlineCalls[1].path = <<1, 1>>
    /\ TokAt(tokens0, <<1, 1>>).text = <<LF, "*", "a">>
    /\ InlineCalls[1].arg = <<"*", "a">>
    /\ InlineCalls[2].path = <<2>>
    /\ TokAt(tokens0, <<2>>).text = <<" ">>
    /\ InlineCalls[2].arg = <<>>

\* The entries of a token that resolution may replace.
Resolvable == {"children", "text"}

\* C17: at every moment of a resolution, every token of the tree is where
\* it was and has every entry other than 'children' and 'text' as it had
\* it, every sequence of tokens has the length it had, and a token that
\* had neither 'children' nor 'text' is as it was and is yielded as it was.
C17_FrameOfResolution ==
    pc \in {"render", "l88"} =>
       /\ Len(tokens) = Len(tokens0)
       /\ Paths(tokens0) \subseteq Paths(tokens)
       /\ \A p \in Paths(tokens0) :
             LET before == TokAt(tokens0, p)
                 after == TokAt(tokens, p)
             IN /\ DOMAIN after \ Resolvable = DOMAIN before \ Resolvable
                /\ \A key \in DOMAIN before \ Resolvable :
                      after[key] = before[key]
                /\ Has(before, "children") =>
                      /\ Has(after, "children")
                      /\ Len(after.children) = Len(before.children)
                /\ DOMAIN before \cap Resolvable = {} => after = before
       /\ \A k \in 1..Len(events) :
             (events[k].op = "yield"
                /\ DOMAIN TokAt(tokens0, events[k].path) \cap Resolvable = {})
             => events[k].tok = TokAt(tokens0, events[k].path)
       /\ pc = "l88" =>
             /\ Len(result.val) = Len(tokens0)
             /\ \A i \in 1..Len(tokens0) :
                   /\ result.val[i].type = tokens0[i].type
                   /\ Has(tokens0[i], "attrs") =>
                         result.val[i].attrs = tokens0[i].attrs

C17_Witness ==
    /\ pc = "l88"
    /\ Len(tokens0) = 1
    /\ Has(tokens0[1], "attrs")
    /\ Len(tokens0[1].children) = 2
    /\ RawLeaf(tokens0[1].children[1])
    /\ tokens0[1].children[2] = [type |-> "blank_line"]
    /\ result.val[1].attrs = [depth |-> 1]
    /\ result.val[1].children[2] = [type |-> "blank_line"]

\* C18: the tokens the Inline Engine returned are the 'children' of the
\* token, then and when the token is yielded and afterwards, and nothing
\* is resolved or yielded below a token that had a text: no event has a
\* path into the inline tokens, and the inline calls are as many as the
\* tokens of the tree that had a text and no 'children', whatever the
\* inline tokens carry.
C18_InlineTokensAsIs ==
    /\ \A k \in 1..Len(events) :
          /\ events[k].path \in Paths(tokens0)
          /\ events[k].op = "inline" =>
                LET p == events[k].path
                    ret == events[k].ret
                IN /\ ret = Inline(events[k].arg, events[k].env)
                   /\ TokAt(tokens, p).children = ret
                   /\ k < Len(events)
                   /\ events[k + 1].op = "yield"
                   /\ events[k + 1].path = p
                   /\ events[k + 1].tok.children = ret
                   /\ \A j \in 1..Len(events) :
                         ~IsProperPrefix(p, events[j].path)
    /\ Len(InlineCalls) <= Cardinality(RawLeafPaths(tokens0))
    /\ (pc = "l88"
          /\ tokens0 = <<[type |-> "paragraph",
                           text |-> <<"\n", "*", "a">>]>>) =>
          result.val =
              <<[type |-> "paragraph",
                 children |->
                     <<[type |-> "emphasis",
                        children |-> <<[type |-> "codespan",
                                        text |-> <<"a">>]>>]>>]>>

C18_Witness ==
    /\ pc = "l88"
    /\ \E k \in 1..Len(events) :
          /\ events[k].op = "inline"
          /\ Len(events[k].path) = 2
          /\ events[k].ret # <<>>
          /\ Has(events[k].ret[1], "children")
          /\ Has(events[k].ret[1].children[1], "text")
          /\ TokAt(result.val, events[k].path).children = events[k].ret

(***************************************************************************)
(* Hooks registered while parse runs.                                      *)
(***************************************************************************)
IsRegister(c) == c.hook = "register_parse"

\* The hooks appended to before_parse_hooks in this parse call by the
\* hooks of a stage.
RegisteredBy(stage) == Len(SelectSeq(HookCalls(stage), IsRegister))

\* The pre-parse stage of this parse call has ended.
PreParseOver == \E k \in 1..Len(calls) : calls[k].call = "block.parse"

\* C19: a hook appended to before_parse_hooks by a pre-parse hook is
\* invoked in the same parse call, after every hook that was in the list
\* before; a hook appended to it by a pre-render hook, when the pre-parse
\* stage is over, is not invoked in this parse call, and is invoked in the
\* next one.
C19_LiveHookLists ==
    LET pre == HookCalls("before_parse")
        same == RegisteredBy("before_parse")
        late == RegisteredBy("before_render")
        atEntry == Len(before_parse_hooks) - same - late
    IN /\ \A k \in 1..Len(pre) :
             /\ pre[k].i = k
             /\ pre[k].hook = before_parse_hooks[k]
             /\ k > atEntry => pre[k].hook = "nop"
             /\ IsRegister(pre[k]) => k <= atEntry
       /\ Len(pre) <= atEntry + same
       /\ PreParseOver => Len(pre) = atEntry + same
       /\ pc = "l78" => late = 0
       /\ (ncalls = 2 /\ returns # <<>> /\ PreParseOver) =>
             /\ atEntry = Len(returns[1].hooks)
             /\ \A k \in 1..Len(returns[1].hooks) :
                   pre[k].hook = returns[1].hooks[k]

C19_Witness ==
    /\ ncalls = 2
    /\ pc = "returned"
    /\ Len(returns) = 2
    /\ returns[1].hooks = <<"nop", "register_parse", "nop", "nop">>
    /\ before_render_hooks = <<"register_parse">>
    /\ Names(HookCalls("before_parse")) = Repeat("before_parse", 5)
    /\ before_parse_hooks =
          <<"nop", "register_parse", "nop", "nop", "nop", "nop">>

=============================================================================
